---- MODULE Spec2Model ----
(***************************************************************************)
(* Model of the resalloc server's control core                             *)
(* (resallocserver/manager.py): the Manager tick (every Pool's loop, then  *)
(* the ticket assignment pass), the Alloc/Release/Terminate workers and    *)
(* the Watcher, over the persistent Store.  Every `with session_scope()`   *)
(* block of the source is one atomic step; the threads interleave between  *)
(* the blocks.                                                             *)
(***************************************************************************)
EXTENDS Integers, Sequences, FiniteSets, TLC

----------------------------------------------------------------------------
(* Bounds of the model *)

\* resource rows ever inserted (Resource.id is 1..MaxRes)
MaxRes == 2
\* tickets ever submitted (Ticket.id is 1..MaxTickets)
MaxTickets == 2
\* the clock runs over 0..MaxTime
MaxTime == 2
\* workers of one kind, at one position, for one resource
MaxSame == 2
\* the Watcher stops counting failures here (the source counts on)
MaxFail == 3
\* lines a hook writes to its stdout
MaxLines == 3
\* run_command's catch_stdout_bytes is in 1..MaxBudget
MaxBudget == 4
\* turns of a thread's loop: unknown resources, resources due for a check
MaxTurns == 2

----------------------------------------------------------------------------
(* Program constants *)

REUSED_RESOURCE_PRIORITY == 500

\* check_failed_count >= 3 requests the removal
CHECK_FAILED_LIMIT == 3

NoSandbox == "null"
NoTicket == 0
NoResource == 0

Rids == 1..MaxRes
Tids == 1..MaxTickets
Times == 0..MaxTime

RStates == {"NONE", "STARTING", "UP", "RELEASING", "DELETE_REQUEST",
            "DELETING", "ENDED"}

Range(s) == {s[i] : i \in DOMAIN s}

----------------------------------------------------------------------------
(* Pool configuration (class Pool's attributes, set by from_dict)          *)

\* the attributes of class Pool that the control core reads; the commands
\* are modelled by whether they are set (cmd_new and cmd_delete always are:
\* Pool.validate), and a period of 0 is "off", as in the source
PoolBase ==
    [id |-> "a", max |-> 2, max_starting |-> 1, max_prealloc |-> 1,
     start_delay |-> 0,
     cmd_livecheck |-> FALSE, cmd_release |-> FALSE, cmd_list |-> FALSE,
     livecheck_period |-> 1,
     tags |-> <<[name |-> "x", priority |-> 0]>>,
     reuse_opportunity_time |-> 0, reuse_max_count |-> 0,
     reuse_max_time |-> 0]

\* the pools.yaml files the model is run with: each a sequence of pools,
\* in the order reload_config() yields them
Configs ==
    { \* two allocations at a time, reuse on
      << [PoolBase EXCEPT !.max_starting = 2, !.max_prealloc = 2,
                          !.reuse_opportunity_time = 2] >>,
      \* reuse on, with a release hook and a reuse cap
      << [PoolBase EXCEPT !.cmd_release = TRUE, !.max_prealloc = 2,
                          !.reuse_opportunity_time = 2,
                          !.reuse_max_count = 1] >>,
      \* two pools with different tags and tag priorities
      << [PoolBase EXCEPT !.max = 1, !.reuse_opportunity_time = 2,
                          !.tags = <<[name |-> "x", priority |-> 1]>>],
         [PoolBase EXCEPT !.id = "b", !.max = 1,
                          !.reuse_opportunity_time = 2,
                          !.tags = <<[name |-> "x", priority |-> 3],
                                     [name |-> "y", priority |-> 0]>>] >>,
      \* reuse off (the default)
      << [PoolBase EXCEPT !.max = 1] >>,
      \* a short reuse opportunity
      << [PoolBase EXCEPT !.max = 1, !.reuse_opportunity_time = 1] >>,
      \* a sandbox age limit and a start delay
      << [PoolBase EXCEPT !.max = 1, !.reuse_opportunity_time = 2,
                          !.reuse_max_time = 1, !.start_delay = 1] >>,
      \* nothing allocated ahead of the tickets
      << [PoolBase EXCEPT !.max_prealloc = 0,
                          !.reuse_opportunity_time = 2] >>
    }

\* the pools.yaml files with a cmd_livecheck: there the Watcher has work
WatchConfigs ==
    { \* livecheck due at every turn of the Watcher, reuse on
      << [PoolBase EXCEPT !.max = 1,
                          !.cmd_livecheck = TRUE, !.livecheck_period = 0,
                          !.reuse_opportunity_time = 2] >>,
      \* livecheck due once the period has passed, a release hook, reuse off
      << [PoolBase EXCEPT !.max = 1, !.cmd_release = TRUE,
                          !.cmd_livecheck = TRUE, !.livecheck_period = 1] >>
    }

\* what a client may ask for: (tag_set, sandbox)
TicketKinds ==
    { [tag_set |-> {"x"}, sandbox |-> "A"],
      [tag_set |-> {"x"}, sandbox |-> "B"],
      [tag_set |-> {"x", "y"}, sandbox |-> NoSandbox] }

\* the one kind of ticket asked for where the Watcher is looked at
WatchTicketKinds == { [tag_set |-> {"x"}, sandbox |-> "A"] }

----------------------------------------------------------------------------
VARIABLES
    cfg,        \* the pools.yaml in force (reload_config's result)
    now,        \* time.time()
    res,        \* table Resource: id -> row
    tkt,        \* table Ticket: id -> row
    idwp,       \* table IDWithinPool: set of rows
    last_start, \* table Pool: pool id -> last_start
    workers,    \* started worker threads: <<kind, resource, position>> -> count
    mpc,        \* the Manager's position in its tick
    mpool,      \* index in cfg of the pool whose loop() runs
    mqueue,     \* _assign_tickets: the ticket ids still to be looked at
    wpc,        \* the Watcher's position
    wqueue,     \* Watcher.loop: the to_check entries still to be looked at
    event,      \* the shared event (sync.ticket): set or not
    assigned,   \* the last binding made by _assign_tickets (ghost)
    jpc,        \* each kind of thread's position in the statements of its job
    cmd         \* a call of run_command: its arguments and what it returns

vars == <<cfg, now, res, tkt, idwp, last_start, workers, mpc, mpool, mqueue,
          wpc, wqueue, event, assigned, jpc, cmd>>

PoolIds == {"a", "b"}
WKinds == {"Allocator", "Releaser", "Terminator"}
WPcs == {"start", "hook"}

pool_of(pid) == CHOOSE c \in Range(cfg) : c.id = pid
configured(pid) == \E c \in Range(cfg) : c.id = pid

NoRow ==
    [state |-> "NONE", pool |-> "-", ticket |-> NoTicket,
     sandbox |-> NoSandbox, sandboxed_since |-> 0,
     releases_counter |-> 0, released_at |-> 0,
     check_last_time |-> 0, check_failed_count |-> 0,
     tags |-> {},
     \* history: the resource's last cmd_release ended with a failure
     release_failed |-> FALSE]

NoTicketRow ==
    [state |-> "NONE", tag_set |-> {}, sandbox |-> NoSandbox,
     resource |-> NoResource]

Allocated == {r \in Rids : res[r].state # "NONE"}
Submitted == {t \in Tids : tkt[t].state # "NONE"}

\* Resource.tag_set: the ids of the resource's ResourceTag rows
tag_set(r) == {g.name : g \in res[r].tags}

----------------------------------------------------------------------------
(* Store queries (resallocserver.logic.QResources / QTickets)              *)

in_pool(S, p) == {r \in S : res[r].pool = p}

on == {r \in Rids : res[r].state \in
                      {"STARTING", "UP", "RELEASING", "DELETE_REQUEST"}}
up == {r \in Rids : res[r].state = "UP"}
ready == {r \in up : res[r].ticket = NoTicket}
taken == {r \in up : res[r].ticket # NoTicket}
starting == {r \in Rids : res[r].state = "STARTING"}
check_failure_candidates == {r \in up : res[r].ticket = NoTicket}
clean_candidates == {r \in up : res[r].ticket = NoTicket}
clean == {r \in Rids : res[r].state = "DELETE_REQUEST"}
waiting == {t \in Tids : tkt[t].state = "OPEN" /\ tkt[t].resource = NoResource}

stats(p) ==
    [on |-> Cardinality(in_pool(on, p)),
     free |-> Cardinality(in_pool(ready, p)),
     start |-> Cardinality(in_pool(starting, p))]

\* a set of ids as the ascending sequence (ORDER BY id)
RECURSIVE ordered(_)
ordered(S) ==
    IF S = {} THEN <<>>
    ELSE LET m == CHOOSE x \in S : \A y \in S : x <= y
         IN <<m>> \o ordered(S \ {m})

----------------------------------------------------------------------------
(* Started threads *)

W(k, r, pc) == <<k, r, pc>>

\* Thread.start(): one more worker at its first statement
started(w, k, S) ==
    [x \in DOMAIN w |->
        IF x[1] = k /\ x[2] \in S /\ x[3] = "start" /\ w[x] < MaxSame
        THEN w[x] + 1 ELSE w[x]]

\* the worker at position pc moves to position to ("end": the thread ends)
moved(w, k, r, pc, to) ==
    [x \in DOMAIN w |->
        IF x = W(k, r, pc) THEN w[x] - 1
        ELSE IF x = W(k, r, to) THEN w[x] + 1
        ELSE w[x]]

----------------------------------------------------------------------------
(* resallocserver.logic: assign_ticket, release_resource                   *)

\* the Resource row after assign_ticket(resource, ticket)
assign_ticket(r, t) ==
    IF res[r].sandbox = NoSandbox
    THEN [res[r] EXCEPT !.ticket = t, !.sandbox = tkt[t].sandbox,
                        !.sandboxed_since = now]
    ELSE [res[r] EXCEPT !.ticket = t]

\* the Resource row after release_resource(ticket)
release_resource(r) ==
    [res[r] EXCEPT !.ticket = NoTicket,
                   !.releases_counter = @ + 1,
                   !.released_at = now]

----------------------------------------------------------------------------
(* Clients (the ticket submission and close paths)                         *)

NewTicket(k) ==
    /\ Cardinality(Submitted) < MaxTickets
    /\ LET t == Cardinality(Submitted) + 1
       IN tkt' = [tkt EXCEPT ![t] = [state |-> "OPEN", tag_set |-> k.tag_set,
                                     sandbox |-> k.sandbox,
                                     resource |-> NoResource]]
    /\ event' = TRUE
    /\ UNCHANGED <<jpc, cmd, cfg, now, res, idwp, last_start, workers, mpc, mpool,
                   mqueue, wpc, wqueue, assigned>>

CloseTicket(t) ==
    /\ tkt[t].state = "OPEN"
    /\ tkt' = [tkt EXCEPT ![t].state = "CLOSED"]
    /\ UNCHANGED <<jpc, cmd, cfg, now, res, idwp, last_start, workers, mpc, mpool,
                   mqueue, wpc, wqueue, event, assigned>>

\* time passes
Advance ==
    /\ now < MaxTime
    /\ now' = now + 1
    /\ UNCHANGED <<jpc, cmd, cfg, res, tkt, idwp, last_start, workers, mpc, mpool,
                   mqueue, wpc, wqueue, event, assigned>>

----------------------------------------------------------------------------
(* Pool.loop: the Pool Controller, one pool per pass                       *)

CurPool == cfg[mpool].id

\* _detect_closed_tickets: the taken resources whose ticket is CLOSED
closed_resources(p) ==
    {r \in in_pool(taken, p) : tkt[res[r].ticket].state = "CLOSED"}

DetectClosedTickets ==
    /\ mpc = "detect"
    /\ LET p == CurPool
           closed == closed_resources(p)
           hook == pool_of(p).cmd_release
       IN /\ res' = [r \in Rids |->
                       IF r \in closed
                       THEN [release_resource(r) EXCEPT
                               !.state = IF hook THEN "RELEASING" ELSE @]
                       ELSE res[r]]
          /\ tkt' = [t \in Tids |->
                       IF \E r \in closed : res[r].ticket = t
                       THEN [tkt[t] EXCEPT !.resource = NoResource]
                       ELSE tkt[t]]
          /\ workers' = IF hook THEN started(workers, "Releaser", closed)
                        ELSE workers
    /\ mpc' = "removal"
    /\ UNCHANGED <<jpc, cmd, cfg, now, idwp, last_start, mpool, mqueue, wpc, wqueue,
                   event, assigned>>

\* as removal_requested, over every UP resource of the pool, taken or not
removal_requested_taken(p, r) ==
    LET c == pool_of(p)
    IN /\ r \in in_pool(up, p)
       /\ \/ res[r].check_failed_count >= CHECK_FAILED_LIMIT
          \/ c.reuse_opportunity_time = 0
          \/ res[r].released_at < now - c.reuse_opportunity_time
          \/ /\ c.reuse_max_time # 0
             /\ res[r].sandboxed_since < now - c.reuse_max_time
          \/ /\ c.reuse_max_count # 0
             /\ res[r].releases_counter > c.reuse_max_count

\* as removal_requested, with the reuse cap one release late
removal_requested_late(p, r) ==
    LET c == pool_of(p)
    IN \/ /\ r \in in_pool(check_failure_candidates, p)
          /\ res[r].check_failed_count >= CHECK_FAILED_LIMIT
       \/ /\ r \in in_pool(clean_candidates, p)
          /\ \/ c.reuse_opportunity_time = 0
             \/ res[r].released_at < now - c.reuse_opportunity_time
             \/ /\ c.reuse_max_time # 0
                /\ res[r].sandboxed_since < now - c.reuse_max_time
             \/ /\ c.reuse_max_count # 0
                /\ res[r].releases_counter > c.reuse_max_count + 1

\* as removal_requested, with one more failed livecheck allowed
removal_requested_fourth(p, r) ==
    LET c == pool_of(p)
    IN \/ /\ r \in in_pool(check_failure_candidates, p)
          /\ res[r].check_failed_count >= CHECK_FAILED_LIMIT + 1
       \/ /\ r \in in_pool(clean_candidates, p)
          /\ \/ c.reuse_opportunity_time = 0
             \/ res[r].released_at < now - c.reuse_opportunity_time
             \/ /\ c.reuse_max_time # 0
                /\ res[r].sandboxed_since < now - c.reuse_max_time
             \/ /\ c.reuse_max_count # 0
                /\ res[r].releases_counter > c.reuse_max_count

\* _request_resource_removal: whether the pass sets r to DELETE_REQUEST
removal_requested(p, r) ==
    LET c == pool_of(p)
    IN \/ /\ r \in in_pool(check_failure_candidates, p)
          /\ res[r].check_failed_count >= CHECK_FAILED_LIMIT
       \/ /\ r \in in_pool(clean_candidates, p)
          /\ \/ c.reuse_opportunity_time = 0
             \/ res[r].released_at < now - c.reuse_opportunity_time
             \/ /\ c.reuse_max_time # 0
                /\ res[r].sandboxed_since < now - c.reuse_max_time
             \/ /\ c.reuse_max_count # 0
                /\ res[r].releases_counter > c.reuse_max_count

RequestResourceRemoval ==
    /\ mpc = "removal"
    /\ res' = [r \in Rids |->
                 IF removal_requested(CurPool, r)
                 THEN [res[r] EXCEPT !.state = "DELETE_REQUEST"]
                 ELSE res[r]]
    /\ mpc' = "gc"
    /\ UNCHANGED <<jpc, cmd, cfg, now, tkt, idwp, last_start, workers, mpool, mqueue,
                   wpc, wqueue, event, assigned>>

\* as GarbageCollector, passing over the resources that have been released
GarbageCollectorOnce ==
    /\ mpc = "gc"
    /\ workers' = started(workers, "Terminator",
                          {r \in in_pool(clean, CurPool) :
                              res[r].releases_counter = 0})
    /\ mpc' = "alloc"
    /\ UNCHANGED <<jpc, cmd, cfg, now, res, tkt, idwp, last_start, mpool, mqueue,
                   wpc, wqueue, event, assigned>>

\* _garbage_collector: a TerminateWorker per resource in DELETE_REQUEST
GarbageCollector ==
    /\ mpc = "gc"
    /\ workers' = started(workers, "Terminator", in_pool(clean, CurPool))
    /\ mpc' = "alloc"
    /\ UNCHANGED <<jpc, cmd, cfg, now, res, tkt, idwp, last_start, mpool, mqueue,
                   wpc, wqueue, event, assigned>>

\* _too_soon: is_too_soon, from the pool's last_start as its session read
\* it and the clock as it is read after that session
too_soon(p) == last_start[p] + pool_of(p).start_delay > now

\* as quota_reached, without the test of max
quota_reached_no_max(p) ==
    LET s == stats(p)
        c == pool_of(p)
    IN \/ s.free + s.start >= c.max_prealloc
       \/ s.start >= c.max_starting

\* as quota_reached, without the test of max_starting
quota_reached_no_max_starting(p) ==
    LET s == stats(p)
        c == pool_of(p)
    IN \/ s.on >= c.max
       \/ s.free + s.start >= c.max_prealloc

\* as quota_reached, without the test of max_prealloc
quota_reached_no_max_prealloc(p) ==
    LET s == stats(p)
        c == pool_of(p)
    IN \/ s.on >= c.max
       \/ s.start >= c.max_starting

\* _allocate_more_resources: the tests made of the stats; _too_soon() is
\* called, after them, only where none of them holds
quota_reached(p) ==
    LET s == stats(p)
        c == pool_of(p)
    IN \/ s.on >= c.max
       \/ s.free + s.start >= c.max_prealloc
       \/ s.start >= c.max_starting

\* as allocate_pool_id, with the ids counted on and never taken again
allocate_pool_id_counted(p) == Cardinality(in_pool(Allocated, p))

\* _allocate_pool_id: the lowest id no IDWithinPool row of the pool holds
allocate_pool_id(p) ==
    LET ids == {x.id : x \in {y \in idwp : y.pool_name = p}}
    IN CHOOSE i \in 0..Cardinality(ids) :
          /\ i \notin ids
          /\ \A j \in 0..(i - 1) : j \in ids

\* "Quota reached, don't allocate more.": the loop breaks; then
\* _clean_unknown_resources returns at once, no cmd_list being set, and the
\* next pool's loop() or _assign_tickets runs
LoopBreak ==
    IF mpool < Len(cfg)
    THEN mpool' = mpool + 1 /\ mpc' = "detect"
    ELSE mpool' = mpool /\ mpc' = "assign"

\* one turn of the loop of _allocate_more_resources, its session: read the
\* stats, and either break or go on to _too_soon()
AllocateMoreResources ==
    /\ mpc = "alloc"
    /\ IF quota_reached(CurPool) \/ Cardinality(Allocated) >= MaxRes
       THEN LoopBreak
       ELSE mpool' = mpool /\ mpc' = "too_soon"
    /\ UNCHANGED <<jpc, cmd, cfg, now, res, tkt, idwp, last_start, workers, mqueue,
                   wpc, wqueue, event, assigned>>

\* _too_soon, its session: the Pool row's last_start is read (the row is
\* written by allocate() only, in this same thread, so it is the value the
\* comparison that follows finds in last_start)
TooSoonRead ==
    /\ mpc = "too_soon"
    /\ mpc' = "is_too_soon"
    /\ UNCHANGED <<jpc, cmd, cfg, now, res, tkt, idwp, last_start, workers, mpool,
                   mqueue, wpc, wqueue, event, assigned>>

\* _too_soon, after its session: the clock is read and compared; either
\* the loop breaks or allocate() is called
TooSoon ==
    /\ mpc = "is_too_soon"
    /\ IF too_soon(CurPool)
       THEN LoopBreak
       ELSE mpool' = mpool /\ mpc' = "allocate"
    /\ UNCHANGED <<jpc, cmd, cfg, now, res, tkt, idwp, last_start, workers, mqueue,
                   wpc, wqueue, event, assigned>>

\* Pool.allocate: the new Resource row (STARTING), its IDWithinPool row,
\* the pool's last_start, and the AllocWorker
Allocate ==
    /\ mpc = "allocate"
    /\ LET p == CurPool
           r == Cardinality(Allocated) + 1
       IN /\ res' = [res EXCEPT ![r] = [NoRow EXCEPT !.state = "STARTING",
                                                     !.pool = p]]
          /\ idwp' = idwp \cup {[pool_name |-> p, id |-> allocate_pool_id(p),
                                 resource_id |-> r]}
          /\ last_start' = [last_start EXCEPT ![p] = now]
          /\ workers' = started(workers, "Allocator", {r})
    /\ mpc' = "alloc"
    /\ UNCHANGED <<jpc, cmd, cfg, now, tkt, mpool, mqueue, wpc, wqueue, event,
                   assigned>>

----------------------------------------------------------------------------
(* Manager._assign_tickets                                                 *)

NotAssigned ==
    [ticket |-> NoTicket, resource |-> NoResource, candidates |-> {},
     sandbox |-> NoSandbox]

\* as assign_resources, with the unbound resources that are being released
assign_resources_releasing ==
    ready \cup {r \in Rids : res[r].state = "RELEASING"
                             /\ res[r].ticket = NoTicket}

\* as assign_resources, with the taken resources too
assign_resources_up == up

\* the resources the pass loads for a ticket: qres.ready().all()
assign_resources == ready

\* as is_candidate, without the test of the sandbox
is_candidate_any_sandbox(r, t) == tkt[t].tag_set \subseteq tag_set(r)

\* the resources the loop does not `continue` over: sandbox and tags match
is_candidate(r, t) ==
    /\ ~ (res[r].sandbox # NoSandbox /\ res[r].sandbox # tkt[t].sandbox)
    /\ tkt[t].tag_set \subseteq tag_set(r)

candidates(t) == {r \in assign_resources : is_candidate(r, t)}

RECURSIVE tag_priority(_, _)
tag_priority(G, names) ==
    IF G = {} THEN 0
    ELSE LET g == CHOOSE x \in G : TRUE
         IN (IF g.name \in names THEN g.priority ELSE 0)
            + tag_priority(G \ {g}, names)

\* as priority, without the bonus of the re-used resource
priority_tags_only(r, t) == tag_priority(res[r].tags, tkt[t].tag_set)

\* the priority the resource is queued with
priority(r, t) ==
    tag_priority(res[r].tags, tkt[t].tag_set)
    + (IF res[r].sandbox # NoSandbox THEN REUSED_RESOURCE_PRIORITY ELSE 0)

\* PriorityQueue.pop_task over the queued candidates: one of the highest
\* priority (which one of several is the queue's business)
pop_task(t) ==
    {r \in candidates(t) :
        \A q \in candidates(t) : priority(q, t) <= priority(r, t)}

\* the first transaction: the waiting tickets, by id
WaitingTickets ==
    /\ mpc = "assign"
    /\ mqueue' = ordered(waiting)
    /\ mpc' = IF waiting = {} THEN "wait" ELSE "assign_one"
    /\ UNCHANGED <<jpc, cmd, cfg, now, res, tkt, idwp, last_start, workers, mpool,
                   wpc, wqueue, event, assigned>>

\* one turn of the loop over the tickets: one transaction
AssignTicket ==
    /\ mpc = "assign_one"
    /\ LET t == Head(mqueue)
       IN IF candidates(t) = {}
          THEN UNCHANGED <<res, tkt, assigned>>
          ELSE \E r \in pop_task(t) :
                 /\ res' = [res EXCEPT ![r] = assign_ticket(r, t)]
                 /\ tkt' = [tkt EXCEPT ![t].resource = r]
                 /\ assigned' = [ticket |-> t, resource |-> r,
                                 candidates |-> candidates(t),
                                 sandbox |-> res[r].sandbox]
    /\ mqueue' = Tail(mqueue)
    /\ mpc' = IF Tail(mqueue) = <<>> THEN "wait" ELSE "assign_one"
    /\ UNCHANGED <<jpc, cmd, cfg, now, idwp, last_start, workers, mpool, wpc, wqueue,
                   event>>

\* Manager.run: wait() returns (the event is set, or the timeout passed) and
\* the next _loop() starts with the first pool
ManagerWake ==
    /\ mpc = "wait"
    /\ mpc' = "detect"
    /\ mpool' = 1
    /\ assigned' = NotAssigned
    /\ UNCHANGED <<jpc, cmd, cfg, now, res, tkt, idwp, last_start, workers, mqueue,
                   wpc, wqueue, event>>

----------------------------------------------------------------------------
(* Workers *)

at(k, r, pc) == workers[W(k, r, pc)] > 0

\* the ResourceTag rows AllocWorker adds from pool.tags
pool_tags(p) == Range(pool_of(p).tags)

\* AllocWorker.job: its first session_scope reads the row and writes
\* nothing; this is the second one, after cmd_new ended with `status`
AllocDone(r, status) ==
    /\ at("Allocator", r, "start")
    /\ workers' = moved(workers, "Allocator", r, "start", "end")
    /\ res' = [res EXCEPT ![r].state = IF status # 0 THEN "ENDED" ELSE "UP",
                          ![r].tags = pool_tags(res[r].pool)]
    /\ idwp' = IF status # 0 THEN {x \in idwp : x.resource_id # r} ELSE idwp
    /\ event' = TRUE
    /\ UNCHANGED <<jpc, cmd, cfg, now, tkt, last_start, mpc, mpool, mqueue, wpc,
                   wqueue, assigned>>

\* as released, the resource leaving its sandbox too
released_unsandboxed(r, status) ==
    [res[r] EXCEPT
        !.releases_counter =
            IF status # 0 THEN pool_of(res[r].pool).reuse_max_count + 1 ELSE @,
        !.sandbox = NoSandbox,
        !.release_failed = (status # 0),
        !.state = "UP"]

\* the row ReleaseWorker.job writes after cmd_release ended with `status`
released(r, status) ==
    [res[r] EXCEPT
        !.releases_counter =
            IF status # 0 THEN pool_of(res[r].pool).reuse_max_count + 1 ELSE @,
        !.release_failed = (status # 0),
        !.state = "UP"]

\* ReleaseWorker.job: its first session_scope reads the row and writes
\* nothing; this is the second one
ReleaseDone(r, status) ==
    /\ at("Releaser", r, "start")
    /\ workers' = moved(workers, "Releaser", r, "start", "end")
    /\ res' = [res EXCEPT ![r] = released(r, status)]
    /\ event' = (event \/ status = 0)
    /\ UNCHANGED <<jpc, cmd, cfg, now, tkt, idwp, last_start, mpc, mpool, mqueue, wpc,
                   wqueue, assigned>>

\* TerminateWorker.job, its first session_scope: return if an OPEN ticket
\* is bound, else DELETING
ticket_opened(r) ==
    /\ res[r].ticket # NoTicket
    /\ tkt[res[r].ticket].state = "OPEN"

TerminateJob(r) ==
    /\ at("Terminator", r, "start")
    /\ IF ticket_opened(r)
       THEN /\ workers' = moved(workers, "Terminator", r, "start", "end")
            /\ UNCHANGED res
       ELSE /\ workers' = moved(workers, "Terminator", r, "start", "hook")
            /\ res' = [res EXCEPT ![r].state = "DELETING"]
    /\ UNCHANGED <<jpc, cmd, cfg, now, tkt, idwp, last_start, mpc, mpool, mqueue, wpc,
                   wqueue, event, assigned>>

\* TerminateWorker.close, after cmd_delete ended (whatever its status)
TerminateClose(r) ==
    /\ at("Terminator", r, "hook")
    /\ workers' = moved(workers, "Terminator", r, "hook", "end")
    /\ res' = [res EXCEPT ![r].state = "ENDED"]
    /\ idwp' = {x \in idwp : x.resource_id # r}
    /\ event' = TRUE
    /\ UNCHANGED <<jpc, cmd, cfg, now, tkt, last_start, mpc, mpool, mqueue, wpc,
                   wqueue, assigned>>

----------------------------------------------------------------------------
(* Watcher.loop *)

\* to_check, less the entries the loop passes over for having no
\* cmd_livecheck; by resource id
to_check ==
    LET S == {r \in up : /\ configured(res[r].pool)
                         /\ pool_of(res[r].pool).cmd_livecheck}
        ids == ordered(S)
    IN [i \in DOMAIN ids |->
          [id |-> ids[i], last |-> res[ids[i]].check_last_time]]

WatcherSnapshot ==
    /\ wpc = "loop"
    /\ wqueue' = to_check
    /\ wpc' = IF to_check = <<>> THEN "loop" ELSE "check"
    /\ UNCHANGED <<jpc, cmd, cfg, now, res, tkt, idwp, last_start, workers, mpc, mpool,
                   mqueue, event, assigned>>

\* a Watcher that asks for the removal itself at the third failure
checked_removing(r, rc) ==
    [res[r] EXCEPT !.check_last_time = now,
                   !.check_failed_count = IF rc # 0 THEN @ + 1 ELSE 0,
                   !.state = IF rc # 0 /\ res[r].check_failed_count + 1
                                             >= CHECK_FAILED_LIMIT
                             THEN "DELETE_REQUEST" ELSE @]

\* the row after a livecheck that ended with status rc
checked(r, rc) ==
    [res[r] EXCEPT !.check_last_time = now,
                   !.check_failed_count = IF rc # 0 THEN @ + 1 ELSE 0]

\* one turn of the loop over to_check
WatcherCheck(rc) ==
    /\ wpc = "check"
    /\ LET e == Head(wqueue)
           c == pool_of(res[e.id].pool)
       IN IF e.last + c.livecheck_period > now
          THEN rc = 0 /\ UNCHANGED res
          ELSE /\ rc # 0 => res[e.id].check_failed_count < MaxFail
               /\ res' = [res EXCEPT ![e.id] = checked(e.id, rc)]
    /\ wqueue' = Tail(wqueue)
    /\ wpc' = IF Tail(wqueue) = <<>> THEN "loop" ELSE "check"
    /\ UNCHANGED <<jpc, cmd, cfg, now, tkt, idwp, last_start, workers, mpc, mpool,
                   mqueue, event, assigned>>

----------------------------------------------------------------------------
\* no thread is looked at statement by statement, and run_command is not
\* looked at on its own
NoJobs == <<>>
NoCommand == [lines |-> <<>>, catch_stdout_bytes |-> 0,
              catch_stdout_lines_securely |-> FALSE, returned |-> FALSE,
              stdout |-> <<>>]

----------------------------------------------------------------------------
\* the state in which Manager.run starts the Watcher and the first _loop():
\* empty tables, and a clock past the epoch (the rows' default stamps, 0,
\* are in the past)
Init ==
    /\ cfg \in Configs
    /\ now = 1
    /\ res = [r \in Rids |-> NoRow]
    /\ tkt = [t \in Tids |-> NoTicketRow]
    /\ idwp = {}
    /\ last_start = [p \in PoolIds |-> 0]
    /\ workers = [x \in WKinds \X Rids \X WPcs |-> 0]
    /\ mpc = "detect"
    /\ mpool = 1
    /\ mqueue = <<>>
    /\ wpc = "loop"
    /\ wqueue = <<>>
    /\ event = FALSE
    /\ assigned = NotAssigned
    /\ jpc = NoJobs
    /\ cmd = NoCommand

\* the Manager's and the workers' steps
Control ==
    \/ DetectClosedTickets
    \/ RequestResourceRemoval
    \/ GarbageCollector
    \/ AllocateMoreResources
    \/ TooSoonRead
    \/ TooSoon
    \/ Allocate
    \/ WaitingTickets
    \/ AssignTicket
    \/ ManagerWake
    \/ \E r \in Rids, status \in {0, 1} : AllocDone(r, status)
    \/ \E r \in Rids, status \in {0, 1} : ReleaseDone(r, status)
    \/ \E r \in Rids : TerminateJob(r)
    \/ \E r \in Rids : TerminateClose(r)

\* No pool of Configs has a cmd_livecheck: Watcher.loop passes over every
\* resource and writes nothing, so its steps are left out here.
Next ==
    \/ \E k \in TicketKinds : NewTicket(k)
    \/ \E t \in Tids : CloseTicket(t)
    \/ Advance
    \/ Control

Spec == Init /\ [][Next]_vars

\* The pools with a cmd_livecheck, and the Watcher with them, within one
\* tick of the clock: the pool whose livecheck_period is 0 is checked at
\* every turn of the Watcher, the other one once.
InitWatch ==
    /\ cfg \in WatchConfigs
    /\ now = 1
    /\ res = [r \in Rids |-> NoRow]
    /\ tkt = [t \in Tids |-> NoTicketRow]
    /\ idwp = {}
    /\ last_start = [p \in PoolIds |-> 0]
    /\ workers = [x \in WKinds \X Rids \X WPcs |-> 0]
    /\ mpc = "detect"
    /\ mpool = 1
    /\ mqueue = <<>>
    /\ wpc = "loop"
    /\ wqueue = <<>>
    /\ event = FALSE
    /\ assigned = NotAssigned
    /\ jpc = NoJobs
    /\ cmd = NoCommand

NextWatch ==
    \/ \E k \in WatchTicketKinds : NewTicket(k)
    \/ \E t \in Tids : CloseTicket(t)
    \/ Control
    \/ WatcherSnapshot
    \/ \E rc \in {0, 1} : WatcherCheck(rc)

SpecWatch == InitWatch /\ [][NextWatch]_vars

\* The pools with a cmd_release and reuse on: one with no reuse cap, one
\* with a cap of one release, and one of two resources with a start_delay.
ReleaseConfigs ==
    { << [PoolBase EXCEPT !.max = 1, !.cmd_release = TRUE,
                          !.reuse_opportunity_time = 2] >>,
      << [PoolBase EXCEPT !.max = 1, !.cmd_release = TRUE,
                          !.reuse_opportunity_time = 2,
                          !.reuse_max_count = 1] >>,
      << [PoolBase EXCEPT !.cmd_release = TRUE, !.start_delay = 1,
                          !.reuse_opportunity_time = 2] >> }

InitRelease ==
    /\ cfg \in ReleaseConfigs
    /\ now = 1
    /\ res = [r \in Rids |-> NoRow]
    /\ tkt = [t \in Tids |-> NoTicketRow]
    /\ idwp = {}
    /\ last_start = [p \in PoolIds |-> 0]
    /\ workers = [x \in WKinds \X Rids \X WPcs |-> 0]
    /\ mpc = "detect"
    /\ mpool = 1
    /\ mqueue = <<>>
    /\ wpc = "loop"
    /\ wqueue = <<>>
    /\ event = FALSE
    /\ assigned = NotAssigned
    /\ jpc = NoJobs
    /\ cmd = NoCommand

NextRelease ==
    \/ \E k \in WatchTicketKinds : NewTicket(k)
    \/ \E t \in Tids : CloseTicket(t)
    \/ Advance
    \/ Control

SpecRelease == InitRelease /\ [][NextRelease]_vars

\* The pools of one resource at most: the default one (no reuse, no release
\* hook) and one with a release hook, reuse and a cap of one release.
FairConfigs ==
    { << [PoolBase EXCEPT !.max = 1] >>,
      << [PoolBase EXCEPT !.max = 1, !.cmd_release = TRUE,
                          !.reuse_opportunity_time = 2,
                          !.reuse_max_count = 1] >> }

InitFair ==
    /\ cfg \in FairConfigs
    /\ now = 1
    /\ res = [r \in Rids |-> NoRow]
    /\ tkt = [t \in Tids |-> NoTicketRow]
    /\ idwp = {}
    /\ last_start = [p \in PoolIds |-> 0]
    /\ workers = [x \in WKinds \X Rids \X WPcs |-> 0]
    /\ mpc = "detect"
    /\ mpool = 1
    /\ mqueue = <<>>
    /\ wpc = "loop"
    /\ wqueue = <<>>
    /\ event = FALSE
    /\ assigned = NotAssigned
    /\ jpc = NoJobs
    /\ cmd = NoCommand

\* Manager.run: the thread's next statement, wherever it is in its tick
\* (wait() has a timeout, so the thread is never blocked for good)
ManagerStep ==
    \/ DetectClosedTickets
    \/ RequestResourceRemoval
    \/ GarbageCollector
    \/ AllocateMoreResources
    \/ TooSoonRead
    \/ TooSoon
    \/ Allocate
    \/ WaitingTickets
    \/ AssignTicket
    \/ ManagerWake

\* Worker.run: a started thread gets to run, and its hook ends
WorkerStep(r) ==
    \/ \E status \in {0, 1} : AllocDone(r, status)
    \/ \E status \in {0, 1} : ReleaseDone(r, status)

\* the Manager thread and every worker thread are scheduled again and
\* again, and every hook ends
Fairness ==
    /\ WF_vars(ManagerStep)
    /\ \A r \in Rids : /\ WF_vars(WorkerStep(r))
                       /\ WF_vars(TerminateJob(r))
                       /\ WF_vars(TerminateClose(r))

SpecFair == InitFair /\ [][NextRelease]_vars /\ Fairness

\* The pools of one resource at most with no hook but cmd_new and
\* cmd_delete: the default one (reuse off), one that keeps released
\* resources for reuse, and one like it that may start no resource.
LiveConfigs ==
    { << [PoolBase EXCEPT !.max = 1] >>,
      << [PoolBase EXCEPT !.max = 1, !.reuse_opportunity_time = 2] >>,
      << [PoolBase EXCEPT !.max = 1, !.reuse_opportunity_time = 2,
                          !.max_starting = 0] >> }

InitLive ==
    /\ cfg \in LiveConfigs
    /\ now = 1
    /\ res = [r \in Rids |-> NoRow]
    /\ tkt = [t \in Tids |-> NoTicketRow]
    /\ idwp = {}
    /\ last_start = [p \in PoolIds |-> 0]
    /\ workers = [x \in WKinds \X Rids \X WPcs |-> 0]
    /\ mpc = "detect"
    /\ mpool = 1
    /\ mqueue = <<>>
    /\ wpc = "loop"
    /\ wqueue = <<>>
    /\ event = FALSE
    /\ assigned = NotAssigned
    /\ jpc = NoJobs
    /\ cmd = NoCommand

\* The rows of table Resource are numbered on and on (the id is the
\* table's autoincrement key), and a row that is ENDED, with no worker
\* thread left that holds its id, is read by no query of the Manager any
\* more.  Once every row is such a row the numbering starts again: the
\* next resource is the first one of a table with no row.
Forget ==
    /\ Allocated # {}
    /\ \A r \in Allocated : res[r].state = "ENDED"
    /\ \A x \in DOMAIN workers : workers[x] = 0
    /\ idwp = {}
    /\ \A t \in Tids : tkt[t].resource = NoResource
    /\ res' = [r \in Rids |-> NoRow]
    /\ UNCHANGED <<jpc, cmd, cfg, now, tkt, idwp, last_start, workers, mpc, mpool,
                   mqueue, wpc, wqueue, event, assigned>>

\* a client closes a ticket it has got a resource for
CloseBound(t) == tkt[t].resource # NoResource /\ CloseTicket(t)

\* every cmd_new exits 0
NextLive ==
    \/ \E k \in WatchTicketKinds : NewTicket(k)
    \/ \E t \in Tids : CloseTicket(t)
    \/ ManagerStep
    \/ \E r \in Rids : AllocDone(r, 0)
    \/ \E r \in Rids : TerminateJob(r)
    \/ \E r \in Rids : TerminateClose(r)
    \/ Forget

\* the Manager thread and every worker thread are scheduled again and
\* again, every hook ends, and every ticket that has got its resource is
\* closed in the end
Liveness ==
    /\ WF_vars(ManagerStep)
    /\ WF_vars(Forget)
    /\ \A r \in Rids : /\ WF_vars(AllocDone(r, 0))
                       /\ WF_vars(TerminateJob(r))
                       /\ WF_vars(TerminateClose(r))
    /\ \A t \in Tids : WF_vars(CloseBound(t))

SpecLive == InitLive /\ [][NextLive]_vars /\ Liveness

----------------------------------------------------------------------------
(* The threads' jobs, statement by statement: where each enters and leaves *)
(* a `with session_scope()` block and where it calls run_command           *)

Jobs == {"Allocator", "Releaser", "Terminator", "GarbageCleaner", "Watcher"}

\* What decides a thread's way through its job:
\*   status: the exit status of cmd_release (ReleaseWorker.job)
\*   opened: an OPEN ticket is bound to the resource (TerminateWorker.job)
\*   hook:   the pool has a cmd_delete (TerminateWorker.job)
\*   turns:  how many unknown resources cmd_list prints
\*           (CleanUnknownWorker.job), how many of the UP resources are due
\*           for a livecheck (Watcher.loop)
\* AllocWorker.job has one way only.
JobInputs(k) ==
    CASE k = "Allocator" ->
           {[status |-> 0, opened |-> FALSE, hook |-> TRUE, turns |-> 0]}
      [] k = "Releaser" ->
           {[status |-> st, opened |-> FALSE, hook |-> TRUE, turns |-> 0] :
              st \in {0, 1}}
      [] k = "Terminator" ->
           {[status |-> 0, opened |-> FALSE, hook |-> h, turns |-> 0] :
              h \in BOOLEAN}
           \cup {[status |-> 0, opened |-> TRUE, hook |-> TRUE, turns |-> 0]}
      [] k = "GarbageCleaner" ->
           {[status |-> 0, opened |-> FALSE, hook |-> TRUE, turns |-> n] :
              n \in 0..MaxTurns}
      [] k = "Watcher" ->
           {[status |-> 0, opened |-> FALSE, hook |-> TRUE, turns |-> n] :
              n \in 0..MaxTurns}

\* the statements q of a loop's body, n times over
RECURSIVE turns(_, _)
turns(q, n) == IF n = 0 THEN <<>> ELSE q \o turns(q, n - 1)

\* as job, with the ReleaseWorker calling cmd_release in its first session
job_hook_in_session(k, i) ==
    CASE k = "Allocator" ->
           <<"enter", "exit", "run", "ran", "enter", "exit", "set">>
      [] k = "Releaser" ->
           <<"enter", "run", "ran", "exit", "enter", "exit">>
           \o (IF i.status = 0 THEN <<"set">> ELSE <<>>)
      [] k = "Terminator" ->
           IF i.opened THEN <<"enter", "exit">>
           ELSE <<"enter", "exit">>
                \o (IF i.hook THEN <<"run", "ran">> ELSE <<>>)
                \o <<"enter", "exit", "set">>
      [] k = "GarbageCleaner" ->
           <<"run", "ran", "enter", "exit">> \o turns(<<"run", "ran">>, i.turns)
      [] k = "Watcher" ->
           <<"enter", "exit">>
           \o turns(<<"run", "ran", "enter", "exit">>, i.turns)

\* the statements of a thread's job that open a session ("enter"), leave it
\* ("exit"), call run_command ("run": the hook runs until "ran") and set
\* the event ("set"), in the order in which the thread executes them:
\*   AllocWorker.job: read the row, cmd_new, write the row, set the event
\*   ReleaseWorker.job: read the row, cmd_release, write the row, and set
\*     the event `if not status`
\*   TerminateWorker.job: return after the first session at an OPEN
\*     ticket; else DELETING, cmd_delete if the pool has one, and close()
\*     (ENDED, then the event)
\*   CleanUnknownWorker.job: cmd_list, the known resources, and cmd_delete
\*     for each unknown resource
\*   Watcher.loop: the UP resources, then for each one that is due
\*     cmd_livecheck and the session that writes the result
job(k, i) ==
    CASE k = "Allocator" ->
           <<"enter", "exit", "run", "ran", "enter", "exit", "set">>
      [] k = "Releaser" ->
           <<"enter", "exit", "run", "ran", "enter", "exit">>
           \o (IF i.status = 0 THEN <<"set">> ELSE <<>>)
      [] k = "Terminator" ->
           IF i.opened THEN <<"enter", "exit">>
           ELSE <<"enter", "exit">>
                \o (IF i.hook THEN <<"run", "ran">> ELSE <<>>)
                \o <<"enter", "exit", "set">>
      [] k = "GarbageCleaner" ->
           <<"run", "ran", "enter", "exit">> \o turns(<<"run", "ran">>, i.turns)
      [] k = "Watcher" ->
           <<"enter", "exit">>
           \o turns(<<"run", "ran", "enter", "exit">>, i.turns)

\* the statements of its job that thread k has executed
executed(k) == SubSeq(job(k, jpc[k].input), 1, jpc[k].pc)

\* how many of the statements of q are x
RECURSIVE count(_, _)
count(q, x) ==
    IF q = <<>> THEN 0
    ELSE (IF Head(q) = x THEN 1 ELSE 0) + count(Tail(q), x)

\* thread k is inside a `with session_scope()` block
in_session(k) == count(executed(k), "enter") > count(executed(k), "exit")

\* thread k is inside run_command: its hook runs
in_hook(k) == jpc[k].pc > 0 /\ job(k, jpc[k].input)[jpc[k].pc] = "run"

\* thread k executes its next statement; after the last one, the next
\* thread of the kind (the Watcher: the next loop()) starts, on its own way
JobStep(k) ==
    /\ k \in DOMAIN jpc
    /\ IF jpc[k].pc < Len(job(k, jpc[k].input))
       THEN jpc' = [jpc EXCEPT ![k].pc = @ + 1]
       ELSE \E i \in JobInputs(k) :
               jpc' = [jpc EXCEPT ![k] = [pc |-> 0, input |-> i]]
    /\ UNCHANGED <<cfg, now, res, tkt, idwp, last_start, workers, mpc, mpool,
                   mqueue, wpc, wqueue, event, assigned, cmd>>

InitJobs ==
    /\ cfg = << PoolBase >>
    /\ now = 1
    /\ res = [r \in Rids |-> NoRow]
    /\ tkt = [t \in Tids |-> NoTicketRow]
    /\ idwp = {}
    /\ last_start = [p \in PoolIds |-> 0]
    /\ workers = [x \in WKinds \X Rids \X WPcs |-> 0]
    /\ mpc = "detect"
    /\ mpool = 1
    /\ mqueue = <<>>
    /\ wpc = "loop"
    /\ wqueue = <<>>
    /\ event = FALSE
    /\ assigned = NotAssigned
    /\ \E f \in [Jobs -> UNION {JobInputs(k) : k \in Jobs}] :
          /\ \A k \in Jobs : f[k] \in JobInputs(k)
          /\ jpc = [k \in Jobs |-> [pc |-> 0, input |-> f[k]]]
    /\ cmd = NoCommand

NextJobs == \E k \in Jobs : JobStep(k)

SpecJobs == InitJobs /\ [][NextJobs]_vars

----------------------------------------------------------------------------
(* run_command: what it captures of the hook's stdout                      *)

\* b"<< trimmed >>\n"
TRIMMED ==
    <<"<", "<", " ", "t", "r", "i", "m", "m", "e", "d", " ", ">", ">", "\n">>

\* the lines sp.stdout.readline yields: each ends with a newline, but the
\* last one need not
Terminated == { <<"\n">>, <<"a", "\n">>, <<"a", "b", "\n">> }
Unterminated == { <<"b">>, <<"b", "a">> }

Outputs ==
    {q \in UNION {[1..n -> Terminated \cup Unterminated] : n \in 0..MaxLines} :
        \A i \in DOMAIN q : q[i] \in Unterminated => i = Len(q)}

\* as capture, with stdout_stopped never set
RECURSIVE capture_never_stopped(_, _, _, _, _, _)
capture_never_stopped(lines, catch_stdout_bytes, securely, stdout_written, stdout_stopped, captured_string) ==
    IF lines = <<>> THEN captured_string
    ELSE
      LET line == Head(lines)
          rest == Tail(lines)
      IN IF stdout_written + Len(line) > catch_stdout_bytes
         THEN capture_never_stopped(rest, catch_stdout_bytes, securely,
                stdout_written, FALSE,
                captured_string
                  \o (IF stdout_written = 0 /\ ~ securely
                      THEN SubSeq(line, 1, catch_stdout_bytes) ELSE <<>>)
                  \o (IF ~ securely THEN TRIMMED ELSE <<>>))
         ELSE capture_never_stopped(rest, catch_stdout_bytes, securely,
                stdout_written + Len(line), FALSE,
                captured_string \o line)

\* as capture, with a part of a first line that is too long captured in
\* either mode
RECURSIVE capture_partial_line(_, _, _, _, _, _)
capture_partial_line(lines, catch_stdout_bytes, securely, stdout_written, stdout_stopped, captured_string) ==
    IF lines = <<>> THEN captured_string
    ELSE
      LET line == Head(lines)
          rest == Tail(lines)
      IN IF stdout_stopped
         THEN capture_partial_line(rest, catch_stdout_bytes, securely,
                stdout_written, stdout_stopped, captured_string)
         ELSE IF stdout_written + Len(line) > catch_stdout_bytes
         THEN capture_partial_line(rest, catch_stdout_bytes, securely,
                stdout_written, TRUE,
                captured_string
                  \o (IF stdout_written = 0
                      THEN SubSeq(line, 1, catch_stdout_bytes) ELSE <<>>)
                  \o (IF ~ securely THEN TRIMMED ELSE <<>>))
         ELSE capture_partial_line(rest, catch_stdout_bytes, securely,
                stdout_written + Len(line), stdout_stopped,
                captured_string \o line)

\* the loop `for line in iter(sp.stdout.readline, b'')` over the lines still
\* to come, with the loop's variables
RECURSIVE capture(_, _, _, _, _, _)
capture(lines, catch_stdout_bytes, securely, stdout_written, stdout_stopped, captured_string) ==
    IF lines = <<>> THEN captured_string
    ELSE
      LET line == Head(lines)
          rest == Tail(lines)
      IN IF stdout_stopped
         THEN capture(rest, catch_stdout_bytes, securely,
                stdout_written, stdout_stopped, captured_string)
         ELSE IF stdout_written + Len(line) > catch_stdout_bytes
         THEN capture(rest, catch_stdout_bytes, securely,
                stdout_written, TRUE,
                captured_string
                  \o (IF stdout_written = 0 /\ ~ securely
                      THEN SubSeq(line, 1, catch_stdout_bytes) ELSE <<>>)
                  \o (IF ~ securely THEN TRIMMED ELSE <<>>))
         ELSE capture(rest, catch_stdout_bytes, securely,
                stdout_written + Len(line), stdout_stopped,
                captured_string \o line)

\* run_command(..., catch_stdout_bytes, catch_stdout_lines_securely)['stdout']
\* for a hook that writes `lines`
run_command(lines, catch_stdout_bytes, securely) ==
    capture(lines, catch_stdout_bytes, securely, 0, FALSE, <<>>)

\* the call returns
RunCommand ==
    /\ ~ cmd.returned
    /\ cmd.catch_stdout_bytes > 0
    /\ cmd' = [cmd EXCEPT
                 !.returned = TRUE,
                 !.stdout = run_command(cmd.lines, cmd.catch_stdout_bytes,
                                        cmd.catch_stdout_lines_securely)]
    /\ UNCHANGED <<cfg, now, res, tkt, idwp, last_start, workers, mpc, mpool,
                   mqueue, wpc, wqueue, event, assigned, jpc>>

InitCommand ==
    /\ cfg \in Configs
    /\ now = 1
    /\ res = [r \in Rids |-> NoRow]
    /\ tkt = [t \in Tids |-> NoTicketRow]
    /\ idwp = {}
    /\ last_start = [p \in PoolIds |-> 0]
    /\ workers = [x \in WKinds \X Rids \X WPcs |-> 0]
    /\ mpc = "detect"
    /\ mpool = 1
    /\ mqueue = <<>>
    /\ wpc = "loop"
    /\ wqueue = <<>>
    /\ event = FALSE
    /\ assigned = NotAssigned
    /\ jpc = NoJobs
    /\ \E q \in Outputs, n \in 1..MaxBudget, b \in BOOLEAN :
          cmd = [lines |-> q, catch_stdout_bytes |-> n,
                 catch_stdout_lines_securely |-> b, returned |-> FALSE,
                 stdout |-> <<>>]

NextCommand == RunCommand

SpecCommand == InitCommand /\ [][NextCommand]_vars

----------------------------------------------------------------------------
(* Claims *)

BoundTo(r) == {t \in Tids : res[r].ticket = t \/ tkt[t].resource = r}
BoundOf(t) == {r \in Rids : res[r].ticket = t \/ tkt[t].resource = r}

\* C1: in every reachable state each resource is bound to at most one OPEN
\* ticket, and each ticket is bound to at most one resource.
C1_BindingsUnique ==
    /\ \A r \in Rids :
         Cardinality({t \in BoundTo(r) : tkt[t].state = "OPEN"}) <= 1
    /\ \A t \in Tids : Cardinality(BoundOf(t)) <= 1

\* two resources, each bound to its own OPEN ticket
C1_Witness ==
    \E r1, r2 \in Rids :
       /\ r1 # r2
       /\ res[r1].ticket # NoTicket /\ tkt[res[r1].ticket].state = "OPEN"
       /\ res[r2].ticket # NoTicket /\ tkt[res[r2].ticket].state = "OPEN"
       /\ res[r1].ticket # res[r2].ticket

IdRows(r) == {x \in idwp : x.resource_id = r}

\* C2: for every resource ever allocated, in every reachable state, an
\* IDWithinPool row of the resource exists if and only if the resource is
\* not ENDED, and there is never more than one such row.
C2_IdRowIffNotEnded ==
    \A r \in Allocated :
       /\ Cardinality(IdRows(r)) <= 1
       /\ (IdRows(r) # {}) <=> (res[r].state # "ENDED")

\* the step binds ticket t to resource r
Binds(t, r) == res[r].ticket # t /\ res'[r].ticket = t

\* resource r matches ticket t: the tags asked for, and no other sandbox
Matches(r, t) ==
    /\ tkt[t].tag_set \subseteq {g.name : g \in res[r].tags}
    /\ res[r].sandbox \in {NoSandbox, tkt[t].sandbox}

\* the UP resources with no bound ticket
Idle == {r \in Rids : res[r].state = "UP" /\ res[r].ticket = NoTicket
                      /\ \A t \in Tids : tkt[t].resource # r}

\* C3: whenever a ticket t is bound to a resource r, r is UP with no bound
\* ticket, t's tags are among r's and r's sandbox is null or t's; so a bound
\* resource with a sandbox has its ticket's sandbox, and a waiting ticket
\* that no idle resource matches stays waiting.
C3_BindingPreconditions ==
    /\ [][\A t \in Tids, r \in Rids :
             Binds(t, r) => r \in Idle /\ Matches(r, t)]_vars
    /\ [][\A t \in Tids :
             (tkt[t].resource = NoResource
                /\ ~ \E r \in Idle : Matches(r, t))
             => tkt'[t].resource = NoResource]_vars
    /\ [](\A r \in Rids :
             (res[r].ticket # NoTicket /\ res[r].sandbox # NoSandbox)
             => tkt[res[r].ticket].sandbox = res[r].sandbox)

\* a resource that had a sandbox was just bound again, to a ticket of that
\* sandbox
C3_Witness ==
    /\ assigned.resource # NoResource
    /\ assigned.sandbox # NoSandbox
    /\ res[assigned.resource].ticket = assigned.ticket
    /\ tkt[assigned.ticket].sandbox = assigned.sandbox
    /\ tkt[assigned.ticket].state = "OPEN"

OnStates == {"STARTING", "UP", "RELEASING", "DELETE_REQUEST"}
OnCount(p) ==
    Cardinality({r \in Rids : res[r].pool = p /\ res[r].state \in OnStates})
StartingCount(p) ==
    Cardinality({r \in Rids : res[r].pool = p /\ res[r].state = "STARTING"})

\* C4: for every pool, between two ticks the number of its resources in
\* STARTING, UP, RELEASING or DELETE_REQUEST is at most max, and at any
\* moment it is at most max + max_starting - 1.
C4_OnWithinMax ==
    \A c \in Range(cfg) :
       /\ mpc = "wait" => OnCount(c.id) <= c.max
       /\ OnCount(c.id) <= c.max + c.max_starting - 1

\* a pool that starts two resources at a time is at its max between two ticks
C4_Witness ==
    /\ mpc = "wait"
    /\ \E c \in Range(cfg) : /\ c.max_starting > 1
                             /\ StartingCount(c.id) = c.max_starting
                             /\ OnCount(c.id) = c.max

\* C5: for every pool, in every reachable state, the number of its
\* resources in STARTING is at most max_starting.
C5_StartingWithinMax ==
    \A c \in Range(cfg) : StartingCount(c.id) <= c.max_starting

\* the Manager is about to read the stats of a pool that max_starting alone
\* keeps from allocating: one resource is STARTING, max_starting is 1, and
\* neither max nor max_prealloc is reached
C5_Witness ==
    /\ mpc = "alloc"
    /\ LET c == cfg[mpool]
       IN /\ c.max_starting = 1
          /\ StartingCount(c.id) = 1
          /\ OnCount(c.id) < c.max
          /\ Cardinality({r \in Idle : res[r].pool = c.id}) + 1
               < c.max_prealloc

\* C6: once a resource's sandbox is set, no step changes it (the row is
\* never destroyed: an ENDED resource keeps it).
C6_SandboxLockIn ==
    [][\A r \in Rids :
          res[r].sandbox # NoSandbox => res'[r].sandbox = res[r].sandbox]_vars

\* a resource that was released by a ReleaseWorker is bound again, with the
\* sandbox it had
C6_Witness ==
    /\ assigned.resource # NoResource
    /\ assigned.sandbox # NoSandbox
    /\ res[assigned.resource].sandbox = assigned.sandbox
    /\ res[assigned.resource].releases_counter > 0
    /\ pool_of(res[assigned.resource].pool).cmd_release

BoundToOpen(r) ==
    \E t \in Tids : /\ res[r].ticket = t \/ tkt[t].resource = r
                    /\ tkt[t].state = "OPEN"

\* C7: a resource bound to an OPEN ticket is never in DELETE_REQUEST,
\* DELETING or ENDED.
C7_BoundStaysUp ==
    \A r \in Rids :
       BoundToOpen(r) =>
          res[r].state \notin {"DELETE_REQUEST", "DELETING", "ENDED"}

\* the policy pass has just run over a resource that is bound to an OPEN
\* ticket and has failed three checks: it is still UP
C7_Witness ==
    /\ mpc = "gc"
    /\ \E r \in Rids : /\ res[r].pool = CurPool
                       /\ BoundToOpen(r)
                       /\ res[r].check_failed_count >= 3
                       /\ res[r].state = "UP"

Waits(t) == tkt[t].state = "OPEN" /\ tkt[t].resource = NoResource
MatchingIdle(t) == {r \in Idle : Matches(r, t)}

\* C8: if tickets t1 < t2 are both OPEN and unbound and match the same set
\* of ready resources, no step binds t2 while t1 stays unbound.
C8_Fifo ==
    [][\A t1, t2 \in Tids :
          (t1 < t2 /\ Waits(t1) /\ Waits(t2)
             /\ MatchingIdle(t1) = MatchingIdle(t2))
          => ~ (tkt'[t2].resource # NoResource
                  /\ tkt'[t1].resource = NoResource)]_vars

\* the step is the policy pass (_request_resource_removal) of pool p
PolicyPass(p) == mpc = "removal" /\ mpc' = "gc" /\ CurPool = p

\* C9: for a pool with reuse_max_count > 0, the policy pass that follows
\* reuse_max_count releases of a resource sets the resource, if it is UP and
\* unbound, to DELETE_REQUEST.
C9_ReuseCapOriginal ==
    [][\A r \in Rids :
          LET c == pool_of(res[r].pool)
          IN (/\ r \in Idle
              /\ PolicyPass(res[r].pool)
              /\ c.reuse_max_count > 0
              /\ res[r].releases_counter >= c.reuse_max_count)
             => res'[r].state = "DELETE_REQUEST"]_vars

\* C9, as amended: for a pool with reuse_max_count > 0, the policy pass that
\* follows more than reuse_max_count releases of a resource (its
\* releases_counter exceeds reuse_max_count) sets the resource, if it is UP
\* and unbound, to DELETE_REQUEST.
C9_ReuseCap ==
    [][\A r \in Rids :
          LET c == pool_of(res[r].pool)
          IN (/\ r \in Idle
              /\ PolicyPass(res[r].pool)
              /\ c.reuse_max_count > 0
              /\ res[r].releases_counter > c.reuse_max_count)
             => res'[r].state = "DELETE_REQUEST"]_vars

\* the policy pass has just set to DELETE_REQUEST a resource that two
\* tickets were bound to and released from, in a pool whose cap is the only
\* rule that applies
C9_Witness ==
    /\ mpc = "gc"
    /\ \E r \in Rids :
          LET c == pool_of(res[r].pool)
          IN /\ res[r].pool = CurPool
             /\ res[r].state = "DELETE_REQUEST"
             /\ c.reuse_max_count > 0
             /\ res[r].releases_counter = c.reuse_max_count + 1
             /\ c.reuse_opportunity_time > 0
             /\ ~ (res[r].released_at < now - c.reuse_opportunity_time)
             /\ res[r].check_failed_count = 0
             /\ \A t \in Tids : tkt[t].state = "CLOSED"

\* the score of the claim: the priorities of the resource's tags that the
\* ticket names, and 500 more for a resource with a sandbox
RECURSIVE SumPriorities(_)
SumPriorities(G) ==
    IF G = {} THEN 0
    ELSE LET g == CHOOSE x \in G : TRUE
         IN g.priority + SumPriorities(G \ {g})

TagScore(r, t) == SumPriorities({g \in res[r].tags : g.name \in tkt[t].tag_set})
Score(r, t) == TagScore(r, t) + (IF res[r].sandbox = NoSandbox THEN 0 ELSE 500)

\* C10: the resource a ticket is bound to has the highest score among the
\* idle resources that match the ticket; so a resource with the ticket's
\* sandbox goes before one with no sandbox and an equal tag score.
C10_BestScore ==
    [][\A t \in Tids, r \in Rids :
          Binds(t, r) =>
             \A q \in MatchingIdle(t) :
                /\ Score(q, t) <= Score(r, t)
                /\ (res[r].sandbox = NoSandbox /\ res[q].sandbox # NoSandbox)
                   => TagScore(q, t) # TagScore(r, t)]_vars

\* a resource with the ticket's sandbox was bound though one with no
\* sandbox and the same tag score was a candidate too
C10_Witness ==
    /\ assigned.resource # NoResource
    /\ assigned.sandbox # NoSandbox
    /\ \E q \in assigned.candidates :
          /\ q # assigned.resource
          /\ res[q].sandbox = NoSandbox
          /\ res[q].tags = res[assigned.resource].tags

\* C11: a ReleaseWorker whose cmd_release failed leaves the resource UP with
\* releases_counter = reuse_max_count + 1, and the policy pass of the pool
\* that then finds the resource UP sets it to DELETE_REQUEST, whatever the
\* pool's configuration.
C11_FailedReleaseRemoved ==
    /\ [][\A r \in Rids :
             (~ res[r].release_failed /\ res'[r].release_failed)
             => /\ res'[r].state = "UP"
                /\ res'[r].releases_counter
                     = pool_of(res[r].pool).reuse_max_count + 1]_vars
    /\ [][\A r \in Rids :
             (/\ PolicyPass(res[r].pool)
              /\ res[r].release_failed
              /\ res[r].state = "UP")
             => res'[r].state = "DELETE_REQUEST"]_vars

\* the step is a wake-up of the Manager: its wait() returns
WakeUp == mpc = "wait" /\ mpc' = "detect"

\* C12: the sets of the event made between two waits of the Manager make one
\* wake-up: the wake-up takes the event, which is then unset until it is set
\* anew, so the next wait blocks; and a set made while a tick runs is kept
\* until the wait that follows.
C12_WakeupCoalescing ==
    /\ [][WakeUp => ~ event']_vars
    /\ [][(event /\ ~ WakeUp) => event']_vars

\* C13: no worker, and not the Watcher, is inside a session (an open Store
\* transaction) while a hook command of its runs.
C13_NoSessionAcrossHook ==
    \A k \in DOMAIN jpc : ~ (in_session(k) /\ in_hook(k))

\* every worker and the Watcher at a hook at once, each with a session
\* behind it or, the GarbageCleaner, at its second hook
C13_Witness ==
    /\ DOMAIN jpc = Jobs
    /\ \A k \in Jobs : in_hook(k) /\ count(executed(k), "exit") = 1

\* the hook's whole stdout
RECURSIVE Flatten(_)
Flatten(q) == IF q = <<>> THEN <<>> ELSE Head(q) \o Flatten(Tail(q))

\* where the marker is in a string
MarkerAt(x) ==
    {i \in 1..Len(x) : /\ i + Len(TRIMMED) - 1 <= Len(x)
                       /\ SubSeq(x, i, i + Len(TRIMMED) - 1) = TRIMMED}

IsPrefix(x, y) == Len(x) <= Len(y) /\ SubSeq(y, 1, Len(x)) = x

\* C14: with secure_lines false, a stdout longer than the budget N is
\* captured as a prefix of it and then the marker, once, in at most
\* N + len(marker) bytes; a stdout of at most N bytes is captured as it is.
C14_TrimmedCapture ==
    (cmd.returned /\ ~ cmd.catch_stdout_lines_securely) =>
       LET out == Flatten(cmd.lines)
           n == cmd.catch_stdout_bytes
           body == Len(cmd.stdout) - Len(TRIMMED)
       IN IF Len(out) > n
          THEN /\ Len(cmd.stdout) <= n + Len(TRIMMED)
               /\ MarkerAt(cmd.stdout) = {body + 1}
               /\ IsPrefix(SubSeq(cmd.stdout, 1, body), out)
          ELSE cmd.stdout = out

\* a stdout of three lines, the second of which does not fit: the first
\* line and the marker are captured
C14_Witness ==
    /\ cmd.returned /\ ~ cmd.catch_stdout_lines_securely
    /\ Len(cmd.lines) = 3
    /\ Len(cmd.lines[1]) <= cmd.catch_stdout_bytes
    /\ Len(cmd.lines[1]) + Len(cmd.lines[2]) > cmd.catch_stdout_bytes
    /\ Len(cmd.lines[1]) + Len(cmd.lines[3]) <= cmd.catch_stdout_bytes
    /\ cmd.stdout = cmd.lines[1] \o TRIMMED

\* the longest leading run of the lines whose total length is at most n
LeadingRun(q, n) ==
    LET fits == {k \in 0..Len(q) : Len(Flatten(SubSeq(q, 1, k))) <= n}
        k == CHOOSE x \in fits : \A y \in fits : y <= x
    IN SubSeq(q, 1, k)

\* C15: with secure_lines true, the captured stdout is the longest leading
\* run of whole lines of at most N bytes in all: no part of a line, no
\* marker, never more than N bytes.
C15_SecureCapture ==
    (cmd.returned /\ cmd.catch_stdout_lines_securely) =>
       /\ cmd.stdout = Flatten(LeadingRun(cmd.lines, cmd.catch_stdout_bytes))
       /\ Len(cmd.stdout) <= cmd.catch_stdout_bytes
       /\ MarkerAt(cmd.stdout) = {}

\* a first line longer than the budget: nothing is captured
C15_Witness ==
    /\ cmd.returned /\ cmd.catch_stdout_lines_securely
    /\ Len(cmd.lines) > 1
    /\ Len(cmd.lines[1]) > cmd.catch_stdout_bytes
    /\ cmd.stdout = <<>>

\* the pool-local ids the IDWithinPool rows of pool p hold
UsedIds(p) == {x.id : x \in {y \in idwp : y.pool_name = p}}

\* C16: an allocation gives the new resource the lowest id (from 0) that no
\* IDWithinPool row of its pool holds, a freed one included; so no two
\* resources of a pool hold the same id.
C16_LowestFreeId ==
    /\ [][\A x \in idwp' \ idwp :
             /\ x.id \notin UsedIds(x.pool_name)
             /\ \A j \in 0..(x.id - 1) : j \in UsedIds(x.pool_name)
             /\ res'[x.resource_id].state = "STARTING"
             /\ res[x.resource_id].state = "NONE"]_vars
    /\ [](\A x, y \in idwp :
             (x.pool_name = y.pool_name /\ x.id = y.id) => x = y)

\* the second resource of a pool holds the id 0, which the first one, now
\* ENDED, held before
C16_Witness ==
    \E x \in idwp :
       /\ x.id = 0 /\ x.resource_id = 2
       /\ res[1].state = "ENDED" /\ res[1].pool = x.pool_name

\* C17: a pool with max_prealloc = 0 never has an idle resource: none of
\* its resources is UP with no bound ticket, and none is STARTING with no
\* ticket waiting for it.
C17_NoIdleWithoutPrealloc ==
    \A c \in Range(cfg) :
       c.max_prealloc = 0 =>
          \A r \in Rids :
             res[r].pool = c.id =>
                /\ r \notin Idle
                /\ res[r].state = "STARTING" => \E t \in Tids : Waits(t)

\* the Manager has run the loop of a pool with max_prealloc = 0, and the
\* assignment pass, with a ticket waiting, and waits
C17_Witness ==
    /\ mpc = "wait"
    /\ \A c \in Range(cfg) : c.max_prealloc = 0
    /\ \E t \in Tids : Waits(t) /\ tkt[t].tag_set = {"x"}
    /\ now > 1

\* a ReleaseWorker of resource r has been started and has not yet written
\* the resource
Releasing(r) == workers[W("Releaser", r, "start")] > 0

Unbound(r) == res[r].ticket = NoTicket /\ \A t \in Tids : tkt[t].resource # r

\* C18: when a ReleaseWorker of a resource is started, the resource is
\* RELEASING and unbound in the Store, and it stays so, no ticket being
\* bound to it, until the ReleaseWorker sets it to UP.
C18_ReleaseOrdering ==
    /\ [][\A r \in Rids :
             workers'[W("Releaser", r, "start")]
                > workers[W("Releaser", r, "start")]
             => /\ res[r].state = "UP" /\ res[r].ticket # NoTicket
                /\ tkt[res[r].ticket].state = "CLOSED"
                /\ res'[r].state = "RELEASING"
                /\ res'[r].ticket = NoTicket
                /\ \A t \in Tids : tkt'[t].resource # r]_vars
    /\ [](\A r \in Rids :
             Releasing(r) => res[r].state = "RELEASING" /\ Unbound(r))

\* the assignment pass is about to look at a waiting ticket that matches a
\* resource whose ReleaseWorker has not ended
C18_Witness ==
    /\ mpc = "assign_one"
    /\ \E r \in Rids :
          /\ Releasing(r)
          /\ Waits(Head(mqueue))
          /\ tkt[Head(mqueue)].tag_set \subseteq tag_set(r)
          /\ res[r].sandbox = tkt[Head(mqueue)].sandbox

\* the TerminateWorkers of resource r that have been started and have not
\* ended
Terminators(r) ==
    workers[W("Terminator", r, "start")] + workers[W("Terminator", r, "hook")]

\* C19: no two TerminateWorkers are active for the same resource at a time,
\* so that cmd_delete runs once per resource at most.
C19_DistinctTerminators ==
    \A r \in Rids : Terminators(r) <= 1

Lifecycle ==
    { <<"STARTING", "UP">>, <<"STARTING", "ENDED">>, <<"UP", "RELEASING">>,
      <<"RELEASING", "UP">>, <<"UP", "DELETE_REQUEST">>,
      <<"DELETE_REQUEST", "DELETING">>, <<"DELETING", "ENDED">> }

\* C20: every change of a resource's state (after the row is inserted as
\* STARTING) is one of the transitions of the lifecycle; so an ENDED
\* resource stays ENDED.
C20_LifecycleTransitions ==
    [][\A r \in Rids :
          (res[r].state # "NONE" /\ res'[r].state # res[r].state)
          => <<res[r].state, res'[r].state>> \in Lifecycle]_vars

----------------------------------------------------------------------------
\* a step of the Watcher: its position or its list of entries changes
WatcherStep == wpc' # wpc \/ wqueue' # wqueue

\* the fields of a Resource row other than the two the livecheck keeps
NotCheckFields(row) ==
    [row EXCEPT !.check_last_time = 0, !.check_failed_count = 0]

\* C21: a step of the Watcher leaves every ticket, every worker thread, the
\* IDWithinPool rows, the Pool rows and the event as they are, and changes
\* no field of a Resource row but check_last_time and check_failed_count;
\* the one row a livecheck changes is that of the entry looked at: its
\* check_last_time becomes the time of the write and its check_failed_count
\* becomes 0 or one more than it was; the entries listed at the start of a
\* loop cover every UP resource of a pool with a cmd_livecheck, with a
\* ticket or without.
C21_WatcherFrame ==
    [][WatcherStep =>
         /\ tkt' = tkt
         /\ workers' = workers
         /\ idwp' = idwp
         /\ last_start' = last_start
         /\ event' = event
         /\ \A r \in Rids :
               /\ NotCheckFields(res'[r]) = NotCheckFields(res[r])
               /\ res'[r] # res[r] =>
                     /\ wpc = "check" /\ r = Head(wqueue).id
                     /\ res'[r].check_last_time = now
                     /\ \/ res'[r].check_failed_count = 0
                        \/ res'[r].check_failed_count
                             = res[r].check_failed_count + 1
         /\ wpc = "loop" =>
               \A r \in up :
                  (configured(res[r].pool) /\ pool_of(res[r].pool).cmd_livecheck)
                  => \E i \in DOMAIN wqueue' : wqueue'[i].id = r
      ]_vars

\* a resource with a ticket is the entry the Watcher looks at next, and an
\* earlier livecheck of it has failed
C21_Witness ==
    /\ wpc = "check"
    /\ Head(wqueue).id \in taken
    /\ res[Head(wqueue).id].check_failed_count >= 1
    /\ res[Head(wqueue).id].check_last_time = now

----------------------------------------------------------------------------
\* the livechecks of r have failed CHECK_FAILED_LIMIT times in a row
Unhealthy(r) == res[r].check_failed_count >= CHECK_FAILED_LIMIT

\* C22: the removal pass of a pool sets to DELETE_REQUEST every resource of
\* the pool that is UP with no ticket bound and whose check_failed_count
\* has reached 3, and leaves as it is every resource that is UP with a
\* ticket bound, whatever its count; and no step at all takes out of UP a
\* resource with such a count while the ticket bound to it is OPEN.
C22_HealthFailureRemoval ==
    [][/\ \A p \in PoolIds : PolicyPass(p) =>
             \A r \in in_pool(up, p) :
                /\ (Unhealthy(r) /\ res[r].ticket = NoTicket)
                      => res'[r].state = "DELETE_REQUEST"
                /\ res[r].ticket # NoTicket => res'[r] = res[r]
       /\ \A r \in taken :
             (Unhealthy(r) /\ tkt[res[r].ticket].state = "OPEN")
             => res'[r].state = "UP"
      ]_vars

\* after a removal pass: a resource that has had a ticket, and whose pool
\* keeps released resources for reuse, is in DELETE_REQUEST with three
\* failed livechecks
C22_Witness ==
    /\ mpc = "gc"
    /\ \E r \in in_pool(clean, CurPool) :
          /\ Unhealthy(r)
          /\ res[r].releases_counter >= 1
          /\ pool_of(res[r].pool).reuse_opportunity_time # 0
          /\ res[r].released_at >= now - pool_of(res[r].pool).reuse_opportunity_time

----------------------------------------------------------------------------
\* the IDWithinPool row of resource r is gone
SlotFreed(r) == \A x \in idwp : x.resource_id # r

\* C23: under fair scheduling of the Manager and of the workers, with hooks
\* that end, a resource in DELETE_REQUEST is later ENDED with no
\* IDWithinPool row; and the one state a resource goes to from
\* DELETE_REQUEST is DELETING.
C23_RemovalCompletes ==
    /\ \A r \in Rids :
          (res[r].state = "DELETE_REQUEST")
             ~> (res[r].state = "ENDED" /\ SlotFreed(r))
    /\ [][\A r \in Rids :
             res[r].state = "DELETE_REQUEST"
             => res'[r].state \in {"DELETE_REQUEST", "DELETING"}]_vars

\* a resource that has had a ticket and a release is ENDED, its slot
\* freed, and no TerminateWorker of it is left
C23_Witness ==
    \E r \in Rids :
       /\ res[r].state = "ENDED"
       /\ SlotFreed(r)
       /\ res[r].releases_counter >= 1
       /\ ~ at("Terminator", r, "start")
       /\ ~ at("Terminator", r, "hook")

----------------------------------------------------------------------------
\* C24: under fair scheduling, with hooks that end, every cmd_new exiting 0
\* and every ticket that has got its resource closed in the end, a ticket
\* that is OPEN, and whose tags a pool with max >= 1 and max_prealloc >= 1
\* has, is later bound to a resource, unless its client closes it before;
\* whatever the pool's reuse policy is.
C24_TicketLiveness ==
    \A t \in Tids :
       (tkt[t].state = "OPEN")
          ~> (tkt[t].resource # NoResource \/ tkt[t].state = "CLOSED")

\* the same, for the pools only that may start a resource
C24_TicketLivenessStarting ==
    \A t \in Tids :
       (tkt[t].state = "OPEN" /\ cfg[1].max_starting >= 1)
          ~> (tkt[t].resource # NoResource \/ tkt[t].state = "CLOSED")

\* the same, for the pools only that keep released resources for reuse
\* and may start a resource
C24_TicketLivenessReuse ==
    \A t \in Tids :
       (/\ tkt[t].state = "OPEN"
        /\ cfg[1].reuse_opportunity_time # 0
        /\ cfg[1].max_starting >= 1)
          ~> (tkt[t].resource # NoResource \/ tkt[t].state = "CLOSED")

----------------------------------------------------------------------------
\* the last cmd_release of r exited non-zero, and r has a ticket again
Repicked(r) == res[r].release_failed /\ res[r].ticket # NoTicket

\* C25: a resource whose last cmd_release exited non-zero, and which its
\* ReleaseWorker has set back to UP, is bound to no ticket afterwards.
C25_PoisonedNeverRepicked == \A r \in Rids : ~ Repicked(r)

\* the same, for the pools only whose reuse_max_count is set, where the
\* removal pass after the failure would take the resource away
C25_PoisonedNeverRepickedCapped ==
    \A r \in Rids :
       (configured(res[r].pool) /\ pool_of(res[r].pool).reuse_max_count # 0)
       => ~ Repicked(r)

====
